---- MODULE Spec2Model ----
(***************************************************************************)
(* Model of inv06.py: bill-of-materials availability report.               *)
(*                                                                         *)
(* A Python str is modelled as a sequence of tokens.  A token is either a  *)
(* single delimiter character ("/", ",", "(", ")", "%", " ") or a maximal  *)
(* run of other characters (a word or a numeral).  Python dicts are        *)
(* insertion ordered and are modelled as sequences of [key, value] records *)
(* with pairwise distinct keys.                                            *)
(***************************************************************************)
EXTENDS Integers, Sequences, FiniteSets, TLC

VARIABLES processes, idx, pc, error, inventory_data, recipes_data, report,
          console, unneeded_items, needed_shortages, all_reports, html

vars == <<processes, idx, pc, error, inventory_data, recipes_data, report,
          console, unneeded_items, needed_shortages, all_reports, html>>

----------------------------------------------------------------------------
(* Bounds of the model *)

MaxQty == 2

MaxBandQty == 4

MaxRefs == 1

MaxProcs == 2

----------------------------------------------------------------------------
(* str methods *)

\* str.upper(), token by token
UpperTok(t) ==
    CASE t = "bolt" -> "BOLT"
      [] t = "nut" -> "NUT"
      [] t = "Unknown" -> "UNKNOWN"
      [] t = "plain" -> "PLAIN"
      [] t = "assembly" -> "ASSEMBLY"
      [] t = "x" -> "X"
      [] OTHER -> t

Upper(s) == [i \in DOMAIN s |-> UpperTok(s[i])]

\* str.capitalize() of one word: first character upper, the rest lower
CapTok(t) ==
    CASE t \in {"BOLT", "bolt"} -> "Bolt"
      [] t \in {"NUT", "nut"} -> "Nut"
      [] t = "X" -> "X"
      [] OTHER -> t

\* str.strip(): drop the whitespace at both ends
Strip(s) ==
    LET nonblank == {i \in DOMAIN s : s[i] # " "}
    IN  IF nonblank = {} THEN <<>>
        ELSE LET lo == CHOOSE i \in nonblank : \A j \in nonblank : i <= j
                 hi == CHOOSE i \in nonblank : \A j \in nonblank : j <= i
             IN  SubSeq(s, lo, hi)

\* str.split(sep) for a one-character separator: n separators give n+1 pieces
RECURSIVE Split(_, _)
Split(s, sep) ==
    IF \A i \in DOMAIN s : s[i] # sep THEN <<s>>
    ELSE LET k == CHOOSE i \in DOMAIN s : s[i] = sep /\ \A j \in 1..(i-1) : s[j] # sep
         IN  <<SubSeq(s, 1, k-1)>> \o Split(SubSeq(s, k+1, Len(s)), sep)

\* str.split(): split on runs of whitespace, no empty pieces
SplitWs(s) == SelectSeq(Split(s, " "), LAMBDA w : w # <<>>)

\* sep.join(parts)
RECURSIVE Join(_, _)
Join(parts, sep) ==
    IF parts = <<>> THEN <<>>
    ELSE IF Len(parts) = 1 THEN parts[1]
    ELSE parts[1] \o <<sep>> \o Join(Tail(parts), sep)

\* positions where the two-character substring "//" starts
DoubleSlashAt(s) == {i \in 1..(Len(s)-1) : s[i] = "/" /\ s[i+1] = "/"}

\* "//" in s
HasDoubleSlash(s) == DoubleSlashAt(s) # {}

\* s.split("//", 1) when "//" is in s: cut at the first occurrence
SplitDoubleSlash(s) ==
    LET k == CHOOSE i \in DoubleSlashAt(s) : \A j \in DoubleSlashAt(s) : i <= j
    IN  <<SubSeq(s, 1, k-1), SubSeq(s, k+2, Len(s))>>

\* s.rsplit("(", 1): cut at the last "(" ; one piece when there is none
RSplitParen(s) ==
    LET at == {i \in DOMAIN s : s[i] = "("}
    IN  IF at = {} THEN <<s>>
        ELSE LET k == CHOOSE i \in at : \A j \in at : j <= i
             IN  <<SubSeq(s, 1, k-1), SubSeq(s, k+1, Len(s))>>

\* s.rstrip(")%"): drop trailing ")" and "%" characters
RStripParenPct(s) ==
    LET keep == {i \in DOMAIN s : s[i] \notin {")", "%"}}
    IN  IF keep = {} THEN <<>>
        ELSE SubSeq(s, 1, CHOOSE i \in keep : \A j \in keep : j <= i)

\* s.replace("%", "")
DropPct(s) == SelectSeq(s, LAMBDA t : t # "%")

\* format_case(text)
format_case(text) ==
    Join([i \in DOMAIN SplitWs(text) |->
             [j \in DOMAIN SplitWs(text)[i] |-> CapTok(SplitWs(text)[i][j])]], " ")

----------------------------------------------------------------------------
(* int() and number formatting *)

\* the largest number that is written or read as a numeral
MaxNum == 100 * (MaxQty + MaxBandQty)

Numerals == {ToString(n) : n \in 0..MaxNum}

IntOf == [t \in Numerals |-> CHOOSE n \in 0..MaxNum : ToString(n) = t]

\* int(s) raises ValueError unless s is one numeral (surrounding blanks allowed)
IsInt(s) == Len(Strip(s)) = 1 /\ Strip(s)[1] \in Numerals

int(s) == IntOf[Strip(s)[1]]

\* a / b of two ints; den = 0 stands for the ZeroDivisionError the division raises
TrueDiv(a, b) == [num |-> a, den |-> b]

Zero == [num |-> 0, den |-> 1]

DivFault(r) == r.den = 0

\* r >= p/q for a ratio with positive denominator
RatioGe(r, p, q) == r.num * q >= p * r.den

RatioGt(r, p, q) == r.num * q > p * r.den

\* f"{r:.0%}": r * 100 rounded half to even, then "%"
Percent(r) ==
    LET n == 100 * r.num
        q == n \div r.den
        twice == 2 * (n % r.den)
        rounded == IF twice > r.den \/ (twice = r.den /\ q % 2 = 1) THEN q + 1 ELSE q
    IN  <<ToString(rounded), "%">>

----------------------------------------------------------------------------
(* dict operations *)

DictHas(d, k) == \E i \in DOMAIN d : d[i].key = k

DictGet(d, k, default) ==
    IF DictHas(d, k) THEN d[CHOOSE i \in DOMAIN d : d[i].key = k].value ELSE default

\* d[k] = v: an existing key keeps its position
DictPut(d, k, v) ==
    IF DictHas(d, k)
    THEN [i \in DOMAIN d |-> IF d[i].key = k THEN [key |-> k, value |-> v] ELSE d[i]]
    ELSE Append(d, [key |-> k, value |-> v])

DictKeys(d) == {d[i].key : i \in DOMAIN d}

----------------------------------------------------------------------------
(* Input files *)

\* read_inventory: error names the exception int() raises on a non-numeric amount
RECURSIVE read_inventory_from(_, _)
read_inventory_from(rows, inventory) ==
    IF rows = <<>> THEN [error |-> "none", value |-> inventory]
    ELSE LET row == Head(rows)
         IN  IF ~IsInt(Strip(row.amount)) THEN [error |-> "ValueError", value |-> <<>>]
             ELSE read_inventory_from(Tail(rows),
                      DictPut(inventory, Upper(Strip(row.product)), int(Strip(row.amount))))

read_inventory(file) == read_inventory_from(file, <<>>)

\* read_recipes: error names the exception a malformed line raises
RECURSIVE read_recipes_from(_, _, _)
read_recipes_from(lines, recipes, current_product) ==
    IF lines = <<>> THEN [error |-> "none", value |-> recipes]
    ELSE LET line == Strip(Head(lines))
         IN  IF line # <<>> /\ line[1] = "#product"
             THEN IF Len(SplitWs(line)) < 2 THEN [error |-> "IndexError", value |-> <<>>]
                  ELSE LET product == Upper(Strip(SplitWs(line)[2]))
                       IN  read_recipes_from(Tail(lines), DictPut(recipes, product, <<>>),
                                             [set |-> TRUE, name |-> product])
             ELSE IF line # <<>> /\ current_product.set
             THEN LET fields == Split(line, ",")
                  IN  IF Len(fields) < 2 THEN [error |-> "IndexError", value |-> <<>>]
                      ELSE IF ~IsInt(Strip(fields[2]))
                      THEN [error |-> "ValueError", value |-> <<>>]
                      ELSE LET component == Upper(Strip(fields[1]))
                               amount == int(Strip(fields[2]))
                               source == IF Len(fields) > 2 THEN Strip(fields[3])
                                         ELSE <<"Unknown">>
                               bom == DictGet(recipes, current_product.name, <<>>)
                           IN  read_recipes_from(Tail(lines),
                                   DictPut(recipes, current_product.name,
                                       DictPut(bom, component,
                                           [amount |-> amount, source |-> source])),
                                   current_product)
             ELSE read_recipes_from(Tail(lines), recipes, current_product)

read_recipes(file) == read_recipes_from(file, <<>>, [set |-> FALSE, name |-> <<>>])

----------------------------------------------------------------------------
(* check_inventory *)

\* variant: the division without its guard
available_ratio_unguarded(available_amount, required_amount) ==
    TrueDiv(available_amount, required_amount)

\* available_amount / required_amount if required_amount > 0 else 0
available_ratio(available_amount, required_amount) ==
    IF required_amount > 0 THEN TrueDiv(available_amount, required_amount) ELSE Zero

\* variant: a ratio of exactly one half falls in the lowest band
color_of_strict(ratio) ==
    IF RatioGe(ratio, 1, 1) THEN "green"
    ELSE IF RatioGt(ratio, 0, 1)
         THEN (IF RatioGt(ratio, 1, 2) THEN "yellow" ELSE "red")
         ELSE "red"

\* color by availability ratio
color_of(ratio) ==
    IF RatioGe(ratio, 1, 1) THEN "green"
    ELSE IF RatioGt(ratio, 0, 1)
         THEN (IF RatioGe(ratio, 1, 2) THEN "yellow" ELSE "red")
         ELSE "red"

\* display_value; fault = the ZeroDivisionError of available // required
display_of(ratio, available_amount, required_amount) ==
    IF RatioGe(ratio, 1, 1)
    THEN IF required_amount = 0 THEN [fault |-> TRUE, text |-> <<>>]
         ELSE [fault |-> FALSE,
               text |-> <<ToString(available_amount \div required_amount), "x">>]
    ELSE IF RatioGt(ratio, 0, 1) THEN [fault |-> FALSE, text |-> Percent(ratio)]
    ELSE [fault |-> FALSE, text |-> <<"0", "%">>]

\* the divisor used for a reference of a chain source
component_required_amount(bom, raw_component_upper, required_amount) == required_amount

\* stock / component_required_amount if component_required_amount > 0 else 0
component_ratio(stock, required) ==
    IF required > 0 THEN TrueDiv(stock, required) ELSE Zero

\* one entry of formatted_components
format_reference(inventory, bom, required_amount, raw_component) ==
    LET raw_component_upper == Upper(Strip(raw_component))
        divisor == component_required_amount(bom, raw_component_upper, required_amount)
    IN  IF DictHas(inventory, raw_component_upper)
        THEN LET ratio == component_ratio(DictGet(inventory, raw_component_upper, 0), divisor)
             IN  IF DivFault(ratio) THEN [fault |-> TRUE, text |-> <<>>]
                 ELSE [fault |-> FALSE,
                       text |-> Strip(raw_component) \o <<"(">> \o Percent(ratio) \o <<")">>]
        ELSE [fault |-> FALSE, text |-> Strip(raw_component) \o <<"(", "0", "%", ")">>]

\* the references of a chain source, in order
raw_components_of(source) == Split(SplitDoubleSlash(source)[2], "/")

\* source with every reference of a chain annotated
resolve_source(inventory, bom, required_amount, source) ==
    IF HasDoubleSlash(source)
    THEN LET process == SplitDoubleSlash(source)[1]
             raw_components == raw_components_of(source)
             formatted == [i \in DOMAIN raw_components |->
                              format_reference(inventory, bom, required_amount,
                                               raw_components[i])]
         IN  [fault |-> \E i \in DOMAIN formatted : formatted[i].fault,
              text |-> process \o <<"/", "/">>
                       \o Join([i \in DOMAIN formatted |-> formatted[i].text], "/")]
    ELSE [fault |-> FALSE, text |-> source]

\* one pass of the inner loop: the report row, the printed value, any fault
check_component(inventory, bom, component, entry) ==
    LET required_amount == entry.amount
        available_amount == DictGet(inventory, component, 0)
        ratio == available_ratio(available_amount, required_amount)
    IN  IF DivFault(ratio) THEN [fault |-> TRUE, row |-> <<>>, display |-> <<>>]
        ELSE LET display == display_of(ratio, available_amount, required_amount)
                 resolved == resolve_source(inventory, bom, required_amount, entry.source)
             IN  [fault |-> display.fault \/ resolved.fault,
                  row |-> [component |-> component, needed |-> required_amount,
                           available |-> available_amount, color |-> color_of(ratio),
                           source |-> resolved.text],
                  display |-> display.text]

check_product(inventory, bom) ==
    [c \in DOMAIN bom |-> check_component(inventory, bom, bom[c].key, bom[c].value)]

check_inventory(inventory, recipes) ==
    LET checked == [p \in DOMAIN recipes |-> check_product(inventory, recipes[p].value)]
    IN  [fault |-> \E p \in DOMAIN checked : \E c \in DOMAIN checked[p] : checked[p][c].fault,
         report |-> [p \in DOMAIN recipes |->
                        [key |-> recipes[p].key,
                         value |-> [c \in DOMAIN checked[p] |-> checked[p][c].row]]],
         printed |-> [p \in DOMAIN recipes |->
                        [c \in DOMAIN checked[p] |-> checked[p][c].display]]]

----------------------------------------------------------------------------
(* find_unneeded_inventory *)

\* variant: only the components of the last product count as needed
needed_items_last(recipes) ==
    IF recipes = <<>> THEN {} ELSE DictKeys(recipes[Len(recipes)].value)

needed_items(recipes) == UNION {DictKeys(recipes[p].value) : p \in DOMAIN recipes}

find_unneeded_inventory(inventory, recipes) ==
    SelectSeq(inventory, LAMBDA e : e.key \notin needed_items(recipes))

----------------------------------------------------------------------------
(* list_needed_shortages *)

\* every (component, entry) of every product, in iteration order
RECURSIVE all_components(_)
all_components(recipes) ==
    IF recipes = <<>> THEN <<>>
    ELSE Head(recipes).value \o all_components(Tail(recipes))

\* needed_shortages[item] = needed_shortages.get(item, 0) + amount_needed
RECURSIVE add_needed(_, _)
add_needed(components, needed) ==
    IF components = <<>> THEN needed
    ELSE add_needed(Tail(components),
             DictPut(needed, Head(components).key,
                     DictGet(needed, Head(components).key, 0) + Head(components).value.amount))

\* needed_shortages[item] -= stored_amount for the stocked items that are needed
RECURSIVE subtract_stock(_, _)
subtract_stock(inventory, needed) ==
    IF inventory = <<>> THEN needed
    ELSE subtract_stock(Tail(inventory),
             IF DictHas(needed, Head(inventory).key)
             THEN DictPut(needed, Head(inventory).key,
                          DictGet(needed, Head(inventory).key, 0) - Head(inventory).value)
             ELSE needed)

\* variant: a remainder of zero is kept
list_needed_shortages_nonneg(inventory, recipes) ==
    SelectSeq(subtract_stock(inventory, add_needed(all_components(recipes), <<>>)),
              LAMBDA e : e.value >= 0)

list_needed_shortages(inventory, recipes) ==
    SelectSeq(subtract_stock(inventory, add_needed(all_components(recipes), <<>>)),
              LAMBDA e : e.value > 0)

\* the ratio computed while a shortage is printed
shortage_ratio(inventory, item, shortage) ==
    LET total_needed == shortage + DictGet(inventory, item, 0)
    IN  IF total_needed > 0 THEN TrueDiv(DictGet(inventory, item, 0), total_needed) ELSE Zero

shortage_color(ratio) ==
    IF RatioGe(ratio, 1, 1) THEN "green"
    ELSE IF RatioGe(ratio, 1, 2) THEN "yellow"
    ELSE IF RatioGe(ratio, 1, 10) THEN "white"
    ELSE "red"

----------------------------------------------------------------------------
(* generate_html_report *)

\* one row of the nested table of a chain source; fault = ValueError
html_reference(component) ==
    LET parts == RSplitParen(component)
    IN  IF Len(parts) < 2 THEN [fault |-> TRUE, row |-> <<>>]
        ELSE LET comp_name == parts[1]
                 availability == parts[2]
                 comp_avail == DropPct(RStripParenPct(availability))
             IN  IF ~IsInt(comp_avail) THEN [fault |-> TRUE, row |-> <<>>]
                 ELSE [fault |-> FALSE,
                       row |-> [name |-> comp_name, availability |-> availability,
                                check |-> IF int(comp_avail) >= 100 THEN "green" ELSE "red"]]

html_source(source) ==
    IF HasDoubleSlash(source)
    THEN LET process_info == SplitDoubleSlash(source)[1]
             components_list == Split(SplitDoubleSlash(source)[2], "/")
             refs == [i \in DOMAIN components_list |-> html_reference(components_list[i])]
         IN  [fault |-> \E i \in DOMAIN refs : refs[i].fault,
              nested |-> TRUE, header |-> process_info,
              rows |-> [i \in DOMAIN refs |-> refs[i].row]]
    ELSE [fault |-> FALSE, nested |-> FALSE, header |-> source, rows |-> <<>>]

html_row(item) ==
    [component |-> format_case(item.component), needed |-> item.needed,
     available |-> item.available, class |-> item.color,
     mark |-> IF item.available >= item.needed THEN "check" ELSE "cross",
     source |-> html_source(item.source)]

generate_html_report(reports) ==
    [n \in DOMAIN reports |->
        [name |-> reports[n].key,
         products |-> [p \in DOMAIN reports[n].value |->
             [product |-> reports[n].value[p].key,
              rows |-> [r \in DOMAIN reports[n].value[p].value |->
                           html_row(reports[n].value[p].value[r])]]]]]

html_fault(doc) ==
    \E n \in DOMAIN doc : \E p \in DOMAIN doc[n].products :
        \E r \in DOMAIN doc[n].products[p].rows : doc[n].products[p].rows[r].source.fault

----------------------------------------------------------------------------
(* Inputs: the contents of the inventory and recipe files of each process *)

SeqsUpTo(S, n) == UNION {[1..k -> S] : k \in 0..n}

InventoryRow(product, q) == [product |-> product, amount |-> <<ToString(q)>>]

\* no row or one row for the item
InventoryRowsFor(product, max) ==
    {<<>>} \cup {<<InventoryRow(product, q)>> : q \in 0..max}

InventoryFiles(max) ==
    {a \o b : a \in InventoryRowsFor(<<"BOLT">>, max),
              b \in InventoryRowsFor(<<" ", "nut">>, max)}

ProductLine(name) == <<"#product", " ", name>>

ComponentLine(name, q, source) == <<name, ",", ToString(q), ",">> \o source

\* a component line without a source field
ShortLine(name, q) == <<name, ",", ToString(q)>>

ReferenceTokens == {<<"BOLT">>, <<" ", "nut">>}

ChainSources ==
    {<<"assembly", "/", "/">> \o Join(refs, "/") : refs \in SeqsUpTo(ReferenceTokens, MaxRefs)}

PlainLines(max) ==
    {ComponentLine(name, q, <<"plain">>) : name \in {"BOLT", "NUT"}, q \in 0..max}

ChainLines(max) ==
    {ComponentLine(name, q, source) :
        name \in {"BOLT", "NUT"}, q \in 0..max, source \in ChainSources}

ShortLines(max) == {ShortLine(name, q) : name \in {"BOLT", "NUT"}, q \in 0..max}

Process(n, inventory, recipe) ==
    [name |-> <<"P", ToString(n)>>, inventory |-> inventory, recipe |-> recipe]

\* one product whose last component may have a chain source
ChainRuns ==
    {<<Process(1, inventory, <<ProductLine("WIDGET")>> \o first \o <<last>>)>> :
        inventory \in InventoryFiles(MaxQty),
        first \in {<<>>} \cup {<<l>> : l \in PlainLines(MaxQty)},
        last \in PlainLines(MaxQty) \cup ChainLines(MaxQty) \cup ShortLines(MaxQty)}

\* the plain components of one product: none or one line per item
PlainBoms(max) ==
    {a \o b : a \in {<<>>} \cup {<<ComponentLine("BOLT", q, <<"plain">>)>> : q \in 0..max},
              b \in {<<>>} \cup {<<ComponentLine("NUT", q, <<"plain">>)>> : q \in 0..max}}

\* two products that may share components
SharedRuns ==
    {<<Process(1, inventory,
               <<ProductLine("WIDGET")>> \o w \o <<ProductLine("GADGET")>> \o g)>> :
        inventory \in InventoryFiles(MaxQty), w \in PlainBoms(MaxQty), g \in PlainBoms(MaxQty)}

\* one product with two components over a wider range of quantities
BandRuns ==
    {<<Process(1, <<InventoryRow(<<"BOLT">>, s), InventoryRow(<<"NUT">>, 1)>>,
               <<ProductLine("WIDGET"), ComponentLine("BOLT", a, <<"plain">>),
                 ComponentLine("NUT", b, <<"plain">>)>>)>> :
        s \in 0..MaxBandQty, a \in 0..MaxBandQty, b \in 0..MaxBandQty}

\* files of a run over several processes, some of them malformed
GoodInventory == <<InventoryRow(<<"BOLT">>, 1), InventoryRow(<<"bolt">>, 2)>>

BadInventory == <<InventoryRow(<<"BOLT">>, 1), [product |-> <<"NUT">>, amount |-> <<"x">>]>>

GoodRecipe == <<ProductLine("WIDGET"), ComponentLine("BOLT", 2, <<"assembly", "/", "/", "NUT">>)>>

BadRecipe == <<ProductLine("WIDGET"), <<"BOLT", ",", "x", ",", "plain">>>>

TruncatedRecipe == <<ProductLine("WIDGET"), <<"BOLT">>>>

Datasets ==
    {[inventory |-> GoodInventory, recipe |-> GoodRecipe],
     [inventory |-> BadInventory, recipe |-> GoodRecipe],
     [inventory |-> GoodInventory, recipe |-> BadRecipe],
     [inventory |-> GoodInventory, recipe |-> TruncatedRecipe]}

BatchRuns ==
    {[n \in DOMAIN ds |-> Process(n, ds[n].inventory, ds[n].recipe)] :
        ds \in SeqsUpTo(Datasets, MaxProcs)}

----------------------------------------------------------------------------
(* The program: run_inventory_checks(processes), generate_html_report, print *)

Init ==
    /\ processes \in ChainRuns \cup SharedRuns \cup BandRuns \cup BatchRuns
    /\ idx = 1
    /\ pc = IF processes = <<>> THEN "generate_html_report" ELSE "read_inventory"
    /\ error = "none"
    /\ inventory_data = <<>>
    /\ recipes_data = <<>>
    /\ report = <<>>
    /\ console = <<>>
    /\ unneeded_items = <<>>
    /\ needed_shortages = <<>>
    /\ all_reports = <<>>
    /\ html = <<>>

\* an uncaught exception ends the program
Raise(exception) ==
    /\ pc' = "crashed"
    /\ error' = exception

\* inventory_data = read_inventory(process["inventory"])
ReadInventory ==
    /\ pc = "read_inventory"
    /\ LET loaded == read_inventory(processes[idx].inventory)
       IN  IF loaded.error = "none"
           THEN /\ inventory_data' = loaded.value
                /\ pc' = "read_recipes"
                /\ UNCHANGED error
           ELSE /\ Raise(loaded.error)
                /\ UNCHANGED inventory_data
    /\ UNCHANGED <<processes, idx, recipes_data, report, console, unneeded_items,
                   needed_shortages, all_reports, html>>

\* recipes_data = read_recipes(process["recipe"])
ReadRecipes ==
    /\ pc = "read_recipes"
    /\ LET loaded == read_recipes(processes[idx].recipe)
       IN  IF loaded.error = "none"
           THEN /\ recipes_data' = loaded.value
                /\ pc' = "check_inventory"
                /\ UNCHANGED error
           ELSE /\ Raise(loaded.error)
                /\ UNCHANGED recipes_data
    /\ UNCHANGED <<processes, idx, inventory_data, report, console, unneeded_items,
                   needed_shortages, all_reports, html>>

\* variant: the resolved source is stored back into the recipe entry
CheckInventory_writeback ==
    /\ pc = "check_inventory"
    /\ LET result == check_inventory(inventory_data, recipes_data)
       IN  IF result.fault
           THEN /\ Raise("ZeroDivisionError")
                /\ UNCHANGED <<report, console, recipes_data>>
           ELSE /\ report' = result.report
                /\ console' = result.printed
                /\ recipes_data' =
                       [p \in DOMAIN recipes_data |->
                           [key |-> recipes_data[p].key,
                            value |-> [c \in DOMAIN recipes_data[p].value |->
                                [key |-> recipes_data[p].value[c].key,
                                 value |-> [amount |-> recipes_data[p].value[c].value.amount,
                                            source |-> result.report[p].value[c].source]]]]]
                /\ pc' = "find_unneeded_inventory"
                /\ UNCHANGED error
    /\ UNCHANGED <<processes, idx, inventory_data, unneeded_items,
                   needed_shortages, all_reports, html>>

\* report = check_inventory(inventory_data, recipes_data)
CheckInventory ==
    /\ pc = "check_inventory"
    /\ LET result == check_inventory(inventory_data, recipes_data)
       IN  IF result.fault
           THEN /\ Raise("ZeroDivisionError")
                /\ UNCHANGED <<report, console>>
           ELSE /\ report' = result.report
                /\ console' = result.printed
                /\ pc' = "find_unneeded_inventory"
                /\ UNCHANGED error
    /\ UNCHANGED <<processes, idx, inventory_data, recipes_data, unneeded_items,
                   needed_shortages, all_reports, html>>

\* find_unneeded_inventory(inventory_data, recipes_data)
FindUnneededInventory ==
    /\ pc = "find_unneeded_inventory"
    /\ unneeded_items' = find_unneeded_inventory(inventory_data, recipes_data)
    /\ pc' = "list_needed_shortages"
    /\ UNCHANGED <<processes, idx, error, inventory_data, recipes_data, report, console,
                   needed_shortages, all_reports, html>>

\* list_needed_shortages(inventory_data, recipes_data)
ListNeededShortages ==
    /\ pc = "list_needed_shortages"
    /\ LET shortages == list_needed_shortages(inventory_data, recipes_data)
       IN  IF \E i \in DOMAIN shortages :
                 DivFault(shortage_ratio(inventory_data, shortages[i].key, shortages[i].value))
           THEN /\ Raise("ZeroDivisionError")
                /\ UNCHANGED needed_shortages
           ELSE /\ needed_shortages' = shortages
                /\ pc' = "store"
                /\ UNCHANGED error
    /\ UNCHANGED <<processes, idx, inventory_data, recipes_data, report, console,
                   unneeded_items, all_reports, html>>

\* all_reports[process["name"]] = report, then the next process
StoreReport ==
    /\ pc = "store"
    /\ all_reports' = DictPut(all_reports, processes[idx].name, report)
    /\ idx' = idx + 1
    /\ pc' = IF idx = Len(processes) THEN "generate_html_report" ELSE "read_inventory"
    /\ UNCHANGED <<processes, error, inventory_data, recipes_data, report, console,
                   unneeded_items, needed_shortages, html>>

\* generate_html_report(all_reports)
GenerateHtmlReport ==
    /\ pc = "generate_html_report"
    /\ LET doc == generate_html_report(all_reports)
       IN  IF html_fault(doc)
           THEN /\ Raise("ValueError")
                /\ UNCHANGED html
           ELSE /\ html' = doc
                /\ pc' = "done"
                /\ UNCHANGED error
    /\ UNCHANGED <<processes, idx, inventory_data, recipes_data, report, console,
                   unneeded_items, needed_shortages, all_reports>>

Next ==
    \/ ReadInventory
    \/ ReadRecipes
    \/ CheckInventory
    \/ FindUnneededInventory
    \/ ListNeededShortages
    \/ StoreReport
    \/ GenerateHtmlReport

Spec == Init /\ [][Next]_vars

----------------------------------------------------------------------------
(* Properties *)

\* report belongs to the inventory_data and recipes_data now loaded
Checked == pc \in {"find_unneeded_inventory", "list_needed_shortages", "store"}

\* the (product, component) positions of the loaded recipes
Positions ==
    UNION {{<<p, c>> : c \in DOMAIN recipes_data[p].value} : p \in DOMAIN recipes_data}

BomAt(pos) == recipes_data[pos[1]].value

EntryAt(pos) == BomAt(pos)[pos[2]]

RowAt(pos) == report[pos[1]].value[pos[2]]

IsChain(pos) == HasDoubleSlash(EntryAt(pos).value.source)

\* the references written in the stored source, and the ones rendered in the report
StoredRefs(pos) == raw_components_of(EntryAt(pos).value.source)

RenderedRefs(pos) == Split(SplitDoubleSlash(RowAt(pos).source)[2], "/")

\* reference i of the chain at pos, rendered with the given divisor
RenderedWith(pos, i, divisor) ==
    LET raw == StoredRefs(pos)[i]
        key == Upper(Strip(raw))
    IN  Strip(raw) \o <<"(">>
        \o (IF DictHas(inventory_data, key) /\ divisor > 0
            THEN Percent(TrueDiv(DictGet(inventory_data, key, 0), divisor))
            ELSE <<"0", "%">>)
        \o <<")">>

\* C1: a chain reference that is itself a component of the same product is
\* rendered with stock divided by its own required amount, not by the
\* required amount of the component that carries the chain.
C1_ReferenceUsesOwnRequirement ==
    Checked =>
        \A pos \in Positions :
            IsChain(pos) =>
                \A i \in DOMAIN StoredRefs(pos) :
                    LET key == Upper(Strip(StoredRefs(pos)[i]))
                    IN  DictHas(BomAt(pos), key) =>
                            /\ i \in DOMAIN RenderedRefs(pos)
                            /\ RenderedRefs(pos)[i] =
                                   RenderedWith(pos, i, DictGet(BomAt(pos), key, 0).amount)

\* the sum of the required amounts of item over the first n products
RECURSIVE TotalRequired(_, _)
TotalRequired(item, n) ==
    IF n = 0 THEN 0
    ELSE TotalRequired(item, n - 1)
         + (IF DictHas(recipes_data[n].value, item)
            THEN DictGet(recipes_data[n].value, item, 0).amount ELSE 0)

AllComponentKeys == UNION {DictKeys(recipes_data[p].value) : p \in DOMAIN recipes_data}

Remainder(item) == TotalRequired(item, Len(recipes_data)) - DictGet(inventory_data, item, 0)

\* C2: the shortage of an item is the sum of its required amounts over all
\* products minus its stock, subtracted once, and the item is listed exactly
\* when that remainder is strictly positive.
C2_ShortagesAreTotalMinusStock ==
    pc = "store" =>
        /\ DictKeys(needed_shortages) \subseteq AllComponentKeys
        /\ \A item \in AllComponentKeys :
              /\ DictHas(needed_shortages, item) <=> Remainder(item) > 0
              /\ DictHas(needed_shortages, item) =>
                     DictGet(needed_shortages, item, 0) = Remainder(item)

\* an item required by two products, partly stocked, is reported
C2_Witness ==
    /\ pc = "store"
    /\ \E item \in AllComponentKeys :
          /\ Cardinality({p \in DOMAIN recipes_data : DictHas(recipes_data[p].value, item)}) = 2
          /\ DictGet(inventory_data, item, 0) > 0
          /\ DictHas(needed_shortages, item)
    /\ \E item \in AllComponentKeys : Remainder(item) = 0

\* C3: the unneeded items are exactly the stocked items that are a component
\* of no product, with their stocked quantity.
C3_UnneededAreUnreferenced ==
    pc \in {"list_needed_shortages", "store"} =>
        /\ DictKeys(unneeded_items) =
               {k \in DictKeys(inventory_data) :
                   \A p \in DOMAIN recipes_data : ~DictHas(recipes_data[p].value, k)}
        /\ \A k \in DictKeys(unneeded_items) :
               DictGet(unneeded_items, k, 0) = DictGet(inventory_data, k, 0)

\* one stocked item is used by the first product only, another by none
C3_Witness ==
    /\ pc = "list_needed_shortages"
    /\ Len(recipes_data) = 2
    /\ \E k \in DictKeys(inventory_data) :
          /\ DictHas(recipes_data[1].value, k)
          /\ ~DictHas(recipes_data[2].value, k)
          /\ ~DictHas(unneeded_items, k)
    /\ \E k \in DictKeys(inventory_data) :
          /\ DictHas(unneeded_items, k)
          /\ DictGet(inventory_data, k, 1) = 0

\* C4: a required amount of 0 gives ratio 0 for the component and for every
\* reference of its chain: the component is red and displayed "0%", its
\* references are rendered "(0%)", and no division by zero is raised.
C4_ZeroRequirementIsSafe ==
    /\ error # "ZeroDivisionError"
    /\ Checked =>
          \A pos \in Positions :
              RowAt(pos).needed = 0 =>
                  /\ RowAt(pos).color = "red"
                  /\ console[pos[1]][pos[2]] = <<"0", "%">>
                  /\ IsChain(pos) =>
                        \A i \in DOMAIN StoredRefs(pos) :
                            RenderedRefs(pos)[i] = RenderedWith(pos, i, 0)

\* a stocked component with required amount 0 whose chain names a stocked item
C4_Witness ==
    /\ pc = "store"
    /\ \E pos \in Positions :
          /\ RowAt(pos).needed = 0
          /\ RowAt(pos).available > 0
          /\ IsChain(pos)
          /\ \E i \in DOMAIN StoredRefs(pos) :
                DictGet(inventory_data, Upper(Strip(StoredRefs(pos)[i])), 0) > 0

\* the files of process n load without an exception
Loads(n) ==
    /\ read_inventory(processes[n].inventory).error = "none"
    /\ read_recipes(processes[n].recipe).error = "none"

\* C5: a parse error in the files of one process aborts that process only;
\* every process whose files load has its report when the program ends.
C5_SiblingsSurviveParseError ==
    pc \in {"done", "crashed"} =>
        \A n \in DOMAIN processes : Loads(n) => DictHas(all_reports, processes[n].name)

\* C6: a chain reference to the component that carries the chain is marked as
\* a cycle: it is not rendered as an ordinary reference "name(N%)".
C6_SelfReferenceMarkedAsCycle ==
    Checked =>
        \A pos \in Positions :
            IsChain(pos) =>
                \A i \in DOMAIN StoredRefs(pos) :
                    Upper(Strip(StoredRefs(pos)[i])) = EntryAt(pos).key =>
                        /\ i \in DOMAIN RenderedRefs(pos)
                        /\ \A n \in Numerals :
                              RenderedRefs(pos)[i] # Strip(StoredRefs(pos)[i]) \o <<"(", n, "%", ")">>

\* the chain at pos has the delimiter and nothing after it
EmptyChain(source) == HasDoubleSlash(source) /\ Strip(SplitDoubleSlash(source)[2]) = <<>>

\* the (process, product, row) positions of the HTML report, and its rows
HtmlPositions ==
    UNION {UNION {{<<n, p, r>> : r \in DOMAIN html[n].products[p].rows} :
                  p \in DOMAIN html[n].products} : n \in DOMAIN html}

HtmlRowAt(at) == html[at[1]].products[at[2]].rows[at[3]]

HtmlRows == {HtmlRowAt(at) : at \in HtmlPositions}

\* the source stored in the recipe file for the row at a position of the HTML report
StoredSourceAt(at) ==
    read_recipes(processes[at[1]].recipe).value[at[2]].value[at[3]].value.source

\* C7: a chain source with an empty reference list resolves to a chain with
\* zero references: nothing follows the delimiter in the resolved source and
\* the nested table of the HTML report has no row for it.
C7_EmptyChainHasNoReference ==
    /\ Checked =>
          \A pos \in Positions :
              EmptyChain(EntryAt(pos).value.source) =>
                  SplitDoubleSlash(RowAt(pos).source)[2] = <<>>
    /\ pc = "done" =>
          \A at \in HtmlPositions :
              EmptyChain(StoredSourceAt(at)) => HtmlRowAt(at).source.rows = <<>>

\* C8: check_inventory, find_unneeded_inventory and list_needed_shortages leave
\* the inventory and the recipes as they were loaded, and resolving the same
\* pair again gives the same report.
C8_ResolutionIsRepeatable ==
    Checked =>
        /\ inventory_data = read_inventory(processes[idx].inventory).value
        /\ recipes_data = read_recipes(processes[idx].recipe).value
        /\ check_inventory(inventory_data, recipes_data).report = report

\* the report is complete and a resolved source differs from the stored one
C8_Witness ==
    /\ pc = "store"
    /\ \E pos \in Positions :
          /\ IsChain(pos)
          /\ RowAt(pos).source # EntryAt(pos).value.source
          /\ RowAt(pos).available > 0

ReportRows == UNION {{report[p].value[c] : c \in DOMAIN report[p].value} : p \in DOMAIN report}

\* numerator and denominator of the ratio of a report row
RatioNum(row) == IF row.needed > 0 THEN row.available ELSE 0

RatioDen(row) == IF row.needed > 0 THEN row.needed ELSE 1

Band(color) == CASE color = "red" -> 0 [] color = "yellow" -> 1 [] color = "green" -> 2

\* C9: the color is a function of the ratio alone: green exactly when the
\* ratio is at least 1, yellow exactly when it is in [0.5, 1), red exactly
\* when it is below 0.5; a larger ratio never gets a lower band.
C9_BandsPartitionTheRatio ==
    Checked =>
        /\ \A row \in ReportRows :
              /\ row.color \in {"red", "yellow", "green"}
              /\ row.color = "green" <=> RatioNum(row) >= RatioDen(row)
              /\ row.color = "yellow" <=>
                     (2 * RatioNum(row) >= RatioDen(row) /\ RatioNum(row) < RatioDen(row))
              /\ row.color = "red" <=> 2 * RatioNum(row) < RatioDen(row)
        /\ \A r1, r2 \in ReportRows :
              RatioNum(r1) * RatioDen(r2) <= RatioNum(r2) * RatioDen(r1) =>
                  Band(r1.color) <= Band(r2.color)

\* a row at exactly one half next to a row strictly between 0 and one half
C9_Witness ==
    /\ Checked
    /\ \E r1, r2 \in ReportRows :
          /\ 2 * r1.available = r1.needed /\ r1.needed > 0 /\ r1.color = "yellow"
          /\ r2.available > 0 /\ 2 * r2.available < r2.needed /\ r2.color = "red"

\* C10: a row of the HTML report shows the check mark exactly when its class
\* is green.
C10_MarkAgreesWithColor ==
    pc = "done" =>
        \A row \in HtmlRows : row.mark = "check" <=> row.class = "green"

====
